---- MODULE Spec2Model ----
(***************************************************************************)
(* Merchant management backend: the menu service (categories, dishes) and  *)
(* the inventory service (stock records keyed by dishId), as state         *)
(* machines over the three JSON collections the data store holds, and the  *)
(* statistics service, which reads the collections, joins the statistics   *)
(* files with them and writes report files into the reports directory.     *)
(*                                                                         *)
(* Ids are modelled by their numeric suffix: cat_<n> and dish_<n> are n.   *)
(* An optional JavaScript value is a sequence: << >> is undefined (or an   *)
(* absent property), <<v>> is the value v.                                 *)
(***************************************************************************)
EXTENDS Integers, Sequences, FiniteSets, TLC

\* ---------------------------------------------------------------- bounds
MaxCats == 2
MaxDishes == 2
MaxStock == 1
MaxThreshold == 0
MaxDelta == 1
MaxBatch == 2
MaxAmount == 3
MaxRefs == 2

\* ------------------------------------------------------ program constants
DefaultAlertThreshold == 5

CatIds == 1..MaxCats
DishIds == 1..MaxDishes
StockValues == 0..MaxStock
Deltas == (0 - MaxDelta)..MaxDelta
Reasons == {"waste"}
Statuses == {"on", "off"}

Undefined == << >>
Some(v) == <<v>>
Optional(S) == {Undefined} \cup {Some(v) : v \in S}

\* the three collections, the files of the reports directory, the requests
\* that are under way in concurrent processes, and the latest call
VARIABLES categories, dishes, inventory, reports, inflight, last

vars == <<categories, dishes, inventory, reports, inflight, last>>

\* What the most recent service call was given and what it returned.
NoCall ==
  [op |-> "none", id |-> 0, ok |-> TRUE, err |-> "", cat |-> 0,
   stock |-> Undefined, n |-> 0, reason |-> "", created |-> 0, updated |-> 0, list |-> << >>,
   args |-> << >>, result |-> << >>]

\* ------------------------------------------------------------ data store
\* a || b on an optional number: 0 and undefined are both falsy
OrElse(opt, d) == IF opt = Undefined THEN d ELSE IF opt[1] = 0 THEN d ELSE opt[1]

Max(a, b) == IF a >= b THEN a ELSE b

\* data.findIndex(item => item.id === id), 0 when absent
FindIndexById(data, id) ==
  IF \E i \in DOMAIN data : data[i].id = id
  THEN CHOOSE i \in DOMAIN data :
         data[i].id = id /\ \A j \in 1..(i - 1) : data[j].id # id
  ELSE 0

\* inventory.findIndex(item => item.dishId === dishId), 0 when absent
FindIndexByDishId(inv, dishId) ==
  IF \E i \in DOMAIN inv : inv[i].dishId = dishId
  THEN CHOOSE i \in DOMAIN inv :
         inv[i].dishId = dishId /\ \A j \in 1..(i - 1) : inv[j].dishId # dishId
  ELSE 0

\* smallest counter >= 1 whose id is not taken
GenerateId(existingData) ==
  LET used == {existingData[i].id : i \in DOMAIN existingData}
  IN CHOOSE n \in 1..(Len(existingData) + 1) :
       n \notin used /\ \A m \in 1..(n - 1) : m \in used

\* {...record, ...additionalData}: every key of additionalData overrides,
\* an undefined value included
Spread(record, additionalData) ==
  [k \in DOMAIN record |->
     IF k \in DOMAIN additionalData THEN additionalData[k] ELSE record[k]]

Init ==
  /\ categories = << >>
  /\ dishes = << >>
  /\ inventory = << >>
  /\ reports = {}
  /\ inflight = << >>
  /\ last = NoCall

\* ------------------------------------------------------------ categories
AsCategory(f) == [id |-> f.id, isActive |-> f.isActive]

AsDish(f) ==
  [id |-> f.id, categoryId |-> f.categoryId, status |-> f.status, stock |-> f.stock]

AsInventoryItem(f) ==
  [dishId |-> f.dishId, stock |-> f.stock, alertThreshold |-> f.alertThreshold,
   lastAdjustment |-> f.lastAdjustment, adjustmentReason |-> f.adjustmentReason]

\* the object of the keys a caller supplied: absent keys are left out
Supplied(full) ==
  LET keys == {k \in DOMAIN full : full[k] # Undefined}
  IN [k \in keys |-> full[k][1]]

CreateCategory ==
  /\ Len(categories) < MaxCats
  /\ LET newId == GenerateId(categories)
     IN /\ categories' = Append(categories, [id |-> newId, isActive |-> TRUE])
        /\ last' = [NoCall EXCEPT !.op = "createCategory", !.id = newId]
  /\ UNCHANGED <<dishes, inventory, reports, inflight>>

\* an updateCategory without the id: categoryId line after the spread
UpdateCategoryData_KeepsPatchId(cats, categoryId, updateData) ==
  LET categoryIndex == FindIndexById(cats, categoryId)
  IN IF categoryIndex = 0
     THEN cats
     ELSE [cats EXCEPT ![categoryIndex] =
             AsCategory(Spread(cats[categoryIndex], updateData))]
\* the category collection after updateCategory(categoryId, updateData)
UpdateCategoryData(cats, categoryId, updateData) ==
  LET categoryIndex == FindIndexById(cats, categoryId)
  IN IF categoryIndex = 0
     THEN cats
     ELSE [cats EXCEPT ![categoryIndex] =
             AsCategory([Spread(cats[categoryIndex], updateData) EXCEPT !.id = categoryId])]

UpdateCategory(categoryId, updateData) ==
  /\ categories' = UpdateCategoryData(categories, categoryId, updateData)
  /\ last' = [NoCall EXCEPT !.op = "updateCategory", !.id = categoryId,
                            !.ok = (FindIndexById(categories, categoryId) # 0)]
  /\ UNCHANGED <<dishes, inventory, reports, inflight>>

\* getCategoryById: the index of the category, 0 for null
GetCategoryById_AnyCategory(cats, categoryId) == IF cats = << >> THEN 0 ELSE 1

GetCategoryById(cats, categoryId) == FindIndexById(cats, categoryId)

\* dishes.filter(dish => dish.categoryId === categoryId), as indices
CategoryDishes_OnlyOn(ds, categoryId) ==
  {i \in DOMAIN ds : ds[i].categoryId = categoryId /\ ds[i].status = "on"}

CategoryDishes(ds, categoryId) == {i \in DOMAIN ds : ds[i].categoryId = categoryId}

DeleteCategory(categoryId) ==
  IF Cardinality(CategoryDishes(dishes, categoryId)) > 0
  THEN /\ last' = [NoCall EXCEPT !.op = "deleteCategory", !.id = categoryId,
                                 !.ok = FALSE,
                                 !.err = "Cannot delete category with existing dishes"]
       /\ UNCHANGED <<categories, dishes, inventory, reports, inflight>>
  ELSE /\ categories' = UpdateCategoryData(categories, categoryId, [isActive |-> FALSE])
       /\ last' = [NoCall EXCEPT !.op = "deleteCategory", !.id = categoryId,
                                 !.ok = (FindIndexById(categories, categoryId) # 0)]
       /\ UNCHANGED <<dishes, inventory, reports, inflight>>

\* ---------------------------------------------------------------- dishes
\* the inventory collection after createInventoryEntry(dishId, initialStock)
CreateInventoryEntry(inv, dishId, initialStock) ==
  IF FindIndexByDishId(inv, dishId) # 0
  THEN inv
  ELSE Append(inv, [dishId |-> dishId, stock |-> initialStock,
                    alertThreshold |-> Some(DefaultAlertThreshold),
                    lastAdjustment |-> Undefined, adjustmentReason |-> Undefined])

DishData == [categoryId : CatIds, status : Optional(Statuses), stock : Optional(StockValues)]

\* a createDish in which the failure of the inventory write is thrown on to
\* the caller, the dish being written already
CreateDishWith_PropagatesWriteFailure(dishData, inventoryWritable) ==
  IF GetCategoryById(categories, dishData.categoryId) = 0
  THEN /\ last' = [NoCall EXCEPT !.op = "createDish", !.ok = FALSE,
                                 !.cat = dishData.categoryId, !.stock = dishData.stock,
                                 !.err = "Category not found"]
       /\ UNCHANGED <<categories, dishes, inventory, reports, inflight>>
  ELSE /\ Len(dishes) < MaxDishes
       /\ LET newId == GenerateId(dishes)
              newDish == [id |-> newId,
                          categoryId |-> dishData.categoryId,
                          status |-> IF dishData.status = Undefined
                                     THEN "on" ELSE dishData.status[1],
                          stock |-> OrElse(dishData.stock, 0)]
              thrown == ~inventoryWritable /\ FindIndexByDishId(inventory, newId) = 0
          IN /\ dishes' = Append(dishes, newDish)
             /\ inventory' = IF inventoryWritable
                              THEN CreateInventoryEntry(inventory, newId,
                                                        OrElse(dishData.stock, 0))
                              ELSE inventory
             /\ last' = [NoCall EXCEPT !.op = "createDish", !.id = newId,
                                       !.cat = dishData.categoryId,
                                       !.stock = dishData.stock,
                                       !.ok = ~thrown,
                                       !.err = IF thrown THEN "write failed" ELSE ""]
       /\ UNCHANGED <<categories, reports, inflight>>
\* inventoryWritable: whether writeData succeeds inside createInventoryEntry;
\* its failure is caught and logged there, and createDish carries on
CreateDishWith(dishData, inventoryWritable) ==
  IF GetCategoryById(categories, dishData.categoryId) = 0
  THEN /\ last' = [NoCall EXCEPT !.op = "createDish", !.ok = FALSE,
                                 !.cat = dishData.categoryId, !.stock = dishData.stock,
                                 !.err = "Category not found"]
       /\ UNCHANGED <<categories, dishes, inventory, reports, inflight>>
  ELSE /\ Len(dishes) < MaxDishes
       /\ LET newId == GenerateId(dishes)
              newDish == [id |-> newId,
                          categoryId |-> dishData.categoryId,
                          status |-> IF dishData.status = Undefined
                                     THEN "on" ELSE dishData.status[1],
                          stock |-> OrElse(dishData.stock, 0)]
          IN /\ dishes' = Append(dishes, newDish)
             /\ inventory' = IF inventoryWritable
                              THEN CreateInventoryEntry(inventory, newId,
                                                        OrElse(dishData.stock, 0))
                              ELSE inventory
             /\ last' = [NoCall EXCEPT !.op = "createDish", !.id = newId,
                                       !.cat = dishData.categoryId,
                                       !.stock = dishData.stock]
       /\ UNCHANGED <<categories, reports, inflight>>

CreateDish(dishData) == CreateDishWith(dishData, TRUE)

CreateDishInventoryWriteFails(dishData) == CreateDishWith(dishData, FALSE)

\* the patches the update-dish validator lets through
DishPatches ==
  {Supplied([categoryId |-> c, status |-> s, stock |-> k]) :
     c \in Optional(CatIds), s \in Optional(Statuses), k \in Optional(StockValues)}

\* updateDish(dishId, updateData): "null" (not found), "Category not found" or "ok"
UpdateDishOutcome(dishId, updateData) ==
  IF FindIndexById(dishes, dishId) = 0 THEN "null"
  ELSE IF "categoryId" \in DOMAIN updateData
          /\ GetCategoryById(categories, updateData.categoryId) = 0
       THEN "Category not found"
       ELSE "ok"

UpdateDishData(ds, dishId, updateData) ==
  LET dishIndex == FindIndexById(ds, dishId)
  IN [ds EXCEPT ![dishIndex] =
        AsDish([Spread(ds[dishIndex], updateData) EXCEPT !.id = dishId])]

UpdateDishAs(op, dishId, updateData) ==
  LET outcome == UpdateDishOutcome(dishId, updateData)
  IN /\ dishes' = IF outcome = "ok" THEN UpdateDishData(dishes, dishId, updateData)
                  ELSE dishes
     /\ last' = [NoCall EXCEPT !.op = op, !.id = dishId, !.ok = (outcome = "ok"),
                               !.err = IF outcome = "Category not found"
                                       THEN outcome ELSE ""]
     /\ UNCHANGED <<categories, inventory, reports, inflight>>

UpdateDish(dishId, updateData) == UpdateDishAs("updateDish", dishId, updateData)

\* a deleteDish that takes the record out of the collection
DeleteDish_RemovesRecord(dishId) ==
  /\ dishes' = SelectSeq(dishes, LAMBDA d : d.id # dishId)
  /\ last' = [NoCall EXCEPT !.op = "deleteDish", !.id = dishId,
                            !.ok = (FindIndexById(dishes, dishId) # 0)]
  /\ UNCHANGED <<categories, inventory, reports, inflight>>

DeleteDish(dishId) == UpdateDishAs("deleteDish", dishId, [status |-> "off"])

UpdateDishStatus(dishId, status) ==
  UpdateDishAs("updateDishStatus", dishId, [status |-> status])

\* ------------------------------------------------------------- inventory
\* additionalData.key: undefined when the key is absent
Get(additionalData, key) ==
  IF key \in DOMAIN additionalData THEN additionalData[key] ELSE Undefined

\* the dish collection after updateDishStockField(dishId, newStock)
UpdateDishStockField_NotWritten(ds, dishId, newStock) == ds

UpdateDishStockField(ds, dishId, newStock) ==
  LET dishIndex == FindIndexById(ds, dishId)
  IN IF dishIndex # 0 THEN [ds EXCEPT ![dishIndex].stock = newStock] ELSE ds

\* the inventory collection after updateDishStock(dishId, newStock, additionalData)
UpdateDishStockInventory(inv, dishId, newStock, additionalData) ==
  LET inventoryIndex == FindIndexByDishId(inv, dishId)
  IN IF inventoryIndex = 0
     THEN Append(inv,
            [dishId |-> dishId, stock |-> newStock,
             alertThreshold |->
               Some(OrElse(Get(additionalData, "alertThreshold"), DefaultAlertThreshold)),
             lastAdjustment |-> Undefined, adjustmentReason |-> Undefined])
     ELSE [inv EXCEPT ![inventoryIndex] =
             AsInventoryItem(Spread([inv[inventoryIndex] EXCEPT !.stock = newStock],
                                    additionalData))]

\* both collections after updateDishStock
UpdateDishStockStore(store, dishId, newStock, additionalData) ==
  [inventory |-> UpdateDishStockInventory(store.inventory, dishId, newStock, additionalData),
   dishes |-> UpdateDishStockField(store.dishes, dishId, newStock)]

Store == [inventory |-> inventory, dishes |-> dishes]

\* PUT /dish/:id/stock: the controller passes every extra key, supplied or not
UpdateStock(dishId, newStock, alertThreshold) ==
  LET after == UpdateDishStockStore(Store, dishId, newStock,
                                    [alertThreshold |-> alertThreshold])
  IN /\ inventory' = after.inventory
     /\ dishes' = after.dishes
     /\ last' = [NoCall EXCEPT !.op = "updateStock", !.id = dishId, !.n = newStock,
                   !.created = IF FindIndexByDishId(inventory, dishId) = 0 THEN 1 ELSE 0]
     /\ UNCHANGED <<categories, reports, inflight>>

\* Math.max(0, currentInventory.stock + adjustment)
NewStock_NotClamped(currentStock, adjustment) == currentStock + adjustment

NewStock(currentStock, adjustment) == Max(0, currentStock + adjustment)

AdjustStock(dishId, adjustment, reason) ==
  LET inventoryIndex == FindIndexByDishId(inventory, dishId)
  IN IF inventoryIndex = 0
     THEN /\ last' = [NoCall EXCEPT !.op = "adjustStock", !.id = dishId,
                                    !.n = adjustment, !.reason = reason, !.ok = FALSE,
                                    !.err = "Inventory not found"]
          /\ UNCHANGED <<categories, dishes, inventory, reports, inflight>>
     ELSE LET newStock == NewStock(inventory[inventoryIndex].stock, adjustment)
              after == UpdateDishStockStore(Store, dishId, newStock,
                         [adjustmentReason |-> Some(reason),
                          lastAdjustment |-> Some(adjustment)])
          IN /\ newStock <= MaxStock
             /\ inventory' = after.inventory
             /\ dishes' = after.dishes
             /\ last' = [NoCall EXCEPT !.op = "adjustStock", !.id = dishId,
                                       !.n = adjustment, !.reason = reason]
             /\ UNCHANGED <<categories, reports, inflight>>

\* a validateStockOperation that lets every adjustment through
ValidateStockOperation_Accepts(currentStock, adjustment) == TRUE

\* validateStockOperation: whether the result has no error
ValidateStockOperation(currentStock, adjustment) == ~(currentStock + adjustment < 0)

\* POST /dish/:id/adjust with a body that passed stockAdjustmentSchema: the
\* status and error code of the response
AdjustStockRequest(dishId, adjustment, reason) ==
  LET inventoryIndex == FindIndexByDishId(inventory, dishId)
      request == [NoCall EXCEPT !.op = "adjustStockRequest", !.id = dishId,
                                !.n = adjustment, !.reason = reason]
  IN IF inventoryIndex # 0
        /\ ~ValidateStockOperation(inventory[inventoryIndex].stock, adjustment)
     THEN /\ last' = [request EXCEPT !.ok = FALSE, !.err = "INVALID_OPERATION",
                                     !.result = <<400>>]
          /\ UNCHANGED <<categories, dishes, inventory, reports, inflight>>
     ELSE IF inventoryIndex = 0
     THEN /\ last' = [request EXCEPT !.ok = FALSE, !.err = "NOT_FOUND",
                                     !.result = <<404>>]
          /\ UNCHANGED <<categories, dishes, inventory, reports, inflight>>
     ELSE LET newStock == NewStock(inventory[inventoryIndex].stock, adjustment)
              after == UpdateDishStockStore(Store, dishId, newStock,
                         [adjustmentReason |-> Some(reason),
                          lastAdjustment |-> Some(adjustment)])
          IN /\ newStock <= MaxStock
             /\ inventory' = after.inventory
             /\ dishes' = after.dishes
             /\ last' = [request EXCEPT !.result = <<200>>]
             /\ UNCHANGED <<categories, reports, inflight>>
\* the store and the updated items after the first i entries of a batch
RECURSIVE BatchUpdateFrom(_, _, _, _)
BatchUpdateFrom(stockUpdates, i, store, updatedItems) ==
  IF i > Len(stockUpdates)
  THEN [store |-> store, updatedItems |-> updatedItems]
  ELSE LET update == stockUpdates[i]
       IN IF update.dishId = Undefined \/ update.stock = Undefined
          THEN BatchUpdateFrom(stockUpdates, i + 1, store, updatedItems)
          ELSE LET after == UpdateDishStockStore(store, update.dishId[1], update.stock[1],
                                                 [alertThreshold |-> update.alertThreshold])
                   item == after.inventory[FindIndexByDishId(after.inventory,
                                                             update.dishId[1])]
               IN BatchUpdateFrom(stockUpdates, i + 1, after, Append(updatedItems, item))

BatchUpdateStock(stockUpdates) ==
  LET result == BatchUpdateFrom(stockUpdates, 1, Store, << >>)
  IN /\ inventory' = result.store.inventory
     /\ dishes' = result.store.dishes
     /\ last' = [NoCall EXCEPT !.op = "batchUpdateStock", !.n = Len(stockUpdates),
                               !.updated = Len(result.updatedItems)]
     /\ UNCHANGED <<categories, reports, inflight>>

\* batchUpdateStock where the data store may refuse the inventory write of an
\* entry: writable[i] tells whether writeData succeeds inside the updateDishStock
\* of entry i. A refused write throws before anything is stored, the loop
\* catches the error and goes on with the next entry.
RECURSIVE BatchUpdateWith_AbortsOnThrow(_, _, _, _, _)
BatchUpdateWith_AbortsOnThrow(stockUpdates, writable, i, store, updatedItems) ==
  IF i > Len(stockUpdates)
  THEN [store |-> store, updatedItems |-> updatedItems]
  ELSE LET update == stockUpdates[i]
       IN IF update.dishId = Undefined \/ update.stock = Undefined
          THEN BatchUpdateWith_AbortsOnThrow(stockUpdates, writable, i + 1, store,
                                             updatedItems)
          ELSE IF ~writable[i]
          THEN [store |-> store, updatedItems |-> updatedItems]
          ELSE LET after == UpdateDishStockStore(store, update.dishId[1], update.stock[1],
                                                 [alertThreshold |-> update.alertThreshold])
                   item == after.inventory[FindIndexByDishId(after.inventory,
                                                             update.dishId[1])]
               IN BatchUpdateWith_AbortsOnThrow(stockUpdates, writable, i + 1, after,
                                                Append(updatedItems, item))

RECURSIVE BatchUpdateWith(_, _, _, _, _)
BatchUpdateWith(stockUpdates, writable, i, store, updatedItems) ==
  IF i > Len(stockUpdates)
  THEN [store |-> store, updatedItems |-> updatedItems]
  ELSE LET update == stockUpdates[i]
       IN IF update.dishId = Undefined \/ update.stock = Undefined
          THEN BatchUpdateWith(stockUpdates, writable, i + 1, store, updatedItems)
          ELSE IF ~writable[i]
          THEN BatchUpdateWith(stockUpdates, writable, i + 1, store, updatedItems)
          ELSE LET after == UpdateDishStockStore(store, update.dishId[1], update.stock[1],
                                                 [alertThreshold |-> update.alertThreshold])
                   item == after.inventory[FindIndexByDishId(after.inventory,
                                                             update.dishId[1])]
               IN BatchUpdateWith(stockUpdates, writable, i + 1, after,
                                  Append(updatedItems, item))

\* InventoryService.batchUpdateStock called with any array of entries
BatchUpdateStockWith(stockUpdates, writable) ==
  LET result == BatchUpdateWith(stockUpdates, writable, 1, Store, << >>)
  IN /\ inventory' = result.store.inventory
     /\ dishes' = result.store.dishes
     /\ last' = [NoCall EXCEPT !.op = "batchUpdateStockWith", !.n = Len(stockUpdates),
                               !.updated = Len(result.updatedItems),
                               !.args = [stockUpdates |-> stockUpdates,
                                         writable |-> writable],
                               !.result = result.updatedItems]
     /\ UNCHANGED <<categories, reports, inflight>>

\* the inventory and the counters after the loop has visited dishes i..
RECURSIVE SynchronizeFrom_SeedsZero(_, _, _, _, _)
SynchronizeFrom_SeedsZero(ds, i, inv, created, updated) ==
  IF i > Len(ds)
  THEN [inventory |-> inv, created |-> created, updated |-> updated]
  ELSE LET dish == ds[i]
           existing == FindIndexByDishId(inv, dish.id)
       IN IF existing = 0
          THEN SynchronizeFrom_SeedsZero(ds, i + 1,
                 Append(inv, [dishId |-> dish.id, stock |-> 0,
                              alertThreshold |-> Some(DefaultAlertThreshold),
                              lastAdjustment |-> Undefined,
                              adjustmentReason |-> Undefined]),
                 created + 1, updated)
          ELSE IF inv[existing].stock # dish.stock
               THEN SynchronizeFrom_SeedsZero(ds, i + 1,
                      [inv EXCEPT ![existing].stock = dish.stock], created, updated + 1)
               ELSE SynchronizeFrom_SeedsZero(ds, i + 1, inv, created, updated)

RECURSIVE SynchronizeFrom_CountsEveryRecord(_, _, _, _, _)
SynchronizeFrom_CountsEveryRecord(ds, i, inv, created, updated) ==
  IF i > Len(ds)
  THEN [inventory |-> inv, created |-> created, updated |-> updated]
  ELSE LET dish == ds[i]
           existing == FindIndexByDishId(inv, dish.id)
       IN IF existing = 0
          THEN SynchronizeFrom_CountsEveryRecord(ds, i + 1,
                 Append(inv, [dishId |-> dish.id, stock |-> dish.stock,
                              alertThreshold |-> Some(DefaultAlertThreshold),
                              lastAdjustment |-> Undefined,
                              adjustmentReason |-> Undefined]),
                 created + 1, updated)
          ELSE SynchronizeFrom_CountsEveryRecord(ds, i + 1,
                 [inv EXCEPT ![existing].stock = dish.stock], created, updated + 1)

RECURSIVE SynchronizeFrom(_, _, _, _, _)
SynchronizeFrom(ds, i, inv, created, updated) ==
  IF i > Len(ds)
  THEN [inventory |-> inv, created |-> created, updated |-> updated]
  ELSE LET dish == ds[i]
           existing == FindIndexByDishId(inv, dish.id)
       IN IF existing = 0
          THEN SynchronizeFrom(ds, i + 1,
                 Append(inv, [dishId |-> dish.id, stock |-> dish.stock,
                              alertThreshold |-> Some(DefaultAlertThreshold),
                              lastAdjustment |-> Undefined,
                              adjustmentReason |-> Undefined]),
                 created + 1, updated)
          ELSE IF inv[existing].stock # dish.stock
               THEN SynchronizeFrom(ds, i + 1,
                      [inv EXCEPT ![existing].stock = dish.stock], created, updated + 1)
               ELSE SynchronizeFrom(ds, i + 1, inv, created, updated)

SynchronizeResult(ds, inv) == SynchronizeFrom(ds, 1, inv, 0, 0)

SynchronizeInventory ==
  LET result == SynchronizeResult(dishes, inventory)
  IN /\ inventory' = result.inventory
     /\ last' = [NoCall EXCEPT !.op = "synchronizeInventory",
                               !.created = result.created, !.updated = result.updated]
     /\ UNCHANGED <<categories, dishes, reports, inflight>>

\* Array.prototype.sort((a, b) => a.stock - b.stock): stable, ascending
RECURSIVE InsertByStock(_, _)
InsertByStock(sorted, item) ==
  IF sorted = << >> THEN <<item>>
  ELSE IF sorted[Len(sorted)].stock <= item.stock THEN Append(sorted, item)
  ELSE Append(InsertByStock(SubSeq(sorted, 1, Len(sorted) - 1), item), sorted[Len(sorted)])

RECURSIVE SortByStock(_)
SortByStock(items) ==
  IF items = << >> THEN << >>
  ELSE InsertByStock(SortByStock(SubSeq(items, 1, Len(items) - 1)), items[Len(items)])

\* item.stock <= (customThreshold || item.alertThreshold)
IsLowStock(item, customThreshold) ==
  LET threshold == IF customThreshold # Undefined /\ customThreshold[1] # 0
                   THEN customThreshold ELSE item.alertThreshold
  IN threshold # Undefined /\ item.stock <= threshold[1]

RECURSIVE FilterLowStock(_, _)
FilterLowStock(inv, customThreshold) ==
  IF inv = << >> THEN << >>
  ELSE LET rest == FilterLowStock(Tail(inv), customThreshold)
       IN IF IsLowStock(Head(inv), customThreshold) THEN <<Head(inv)>> \o rest ELSE rest

LowStockDishes(inv, customThreshold) == SortByStock(FilterLowStock(inv, customThreshold))

GetLowStockDishes(customThreshold) ==
  /\ last' = [NoCall EXCEPT !.op = "getLowStockDishes", !.stock = customThreshold,
                            !.list = LowStockDishes(inventory, customThreshold)]
  /\ UNCHANGED <<categories, dishes, inventory, reports, inflight>>

\* --------------------------------------------------- concurrent requests
\* adjustStock requests served by processes that share the data directory.
\* Each process goes through the reads and writes of the collection files one
\* at a time, and the steps of different processes interleave freely.
Requests == {1, 2}

Idle ==
  [pc |-> "idle", dishId |-> 0, adjustment |-> 0, currentStock |-> 0, newStock |-> 0,
   inventory |-> << >>, dishes |-> << >>, sawWrites |-> {}]

\* the requests whose inventory write is on disk
Written == {q \in DOMAIN inflight : inflight[q].pc \in {"readDishes", "writeDishes", "done"}}

\* a request arrives
Submit(r, dishId, adjustment) ==
  /\ inflight[r].pc = "idle"
  /\ inflight' = [inflight EXCEPT ![r] =
                    [Idle EXCEPT !.pc = "getInventory", !.dishId = dishId,
                                 !.adjustment = adjustment]]
  /\ UNCHANGED <<categories, dishes, inventory, reports, last>>

\* adjustStock: getInventoryByDishId reads the inventory file
GetInventoryByDishId(r) ==
  /\ inflight[r].pc = "getInventory"
  /\ LET inventoryIndex == FindIndexByDishId(inventory, inflight[r].dishId)
     IN inflight' = [inflight EXCEPT ![r] =
          IF inventoryIndex = 0
          THEN [@ EXCEPT !.pc = "failed"]
          ELSE [@ EXCEPT !.pc = "readInventory",
                         !.currentStock = inventory[inventoryIndex].stock,
                         !.newStock = NewStock(inventory[inventoryIndex].stock,
                                               inflight[r].adjustment),
                         !.sawWrites = Written]]
  /\ UNCHANGED <<categories, dishes, inventory, reports, last>>

\* updateDishStock: readData(inventoryFile)
ReadInventory(r) ==
  /\ inflight[r].pc = "readInventory"
  /\ inflight' = [inflight EXCEPT ![r] =
                    [@ EXCEPT !.pc = "writeInventory", !.inventory = inventory]]
  /\ UNCHANGED <<categories, dishes, inventory, reports, last>>

\* the stock a request puts into the record it writes
WrittenStock_ReadsAgain(request, inv) ==
  NewStock(inv[FindIndexByDishId(inv, request.dishId)].stock, request.adjustment)

WrittenStock(request, inv) == request.newStock

\* updateDishStock: writeData(inventoryFile, inventory) replaces the whole file
\* with the collection the process read, its one record changed
WriteInventory(r) ==
  /\ inflight[r].pc = "writeInventory"
  /\ inventory' = UpdateDishStockInventory(inflight[r].inventory, inflight[r].dishId,
                    WrittenStock(inflight[r], inventory),
                    [adjustmentReason |-> Some("waste"),
                     lastAdjustment |-> Some(inflight[r].adjustment)])
  /\ inflight' = [inflight EXCEPT ![r] = [@ EXCEPT !.pc = "readDishes"]]
  /\ UNCHANGED <<categories, dishes, reports, last>>

\* updateDishStockField: readData(dishesFile)
ReadDishes(r) ==
  /\ inflight[r].pc = "readDishes"
  /\ inflight' = [inflight EXCEPT ![r] =
                    [@ EXCEPT !.pc = "writeDishes", !.dishes = dishes]]
  /\ UNCHANGED <<categories, dishes, inventory, reports, last>>

\* updateDishStockField: writeData(dishesFile, dishes), and adjustStock returns
WriteDishes(r) ==
  /\ inflight[r].pc = "writeDishes"
  /\ dishes' = UpdateDishStockField(inflight[r].dishes, inflight[r].dishId,
                                    WrittenStock(inflight[r], inventory))
  /\ inflight' = [inflight EXCEPT ![r] = [@ EXCEPT !.pc = "done"]]
  /\ last' = [NoCall EXCEPT !.op = "adjustStock", !.id = inflight[r].dishId,
                            !.n = inflight[r].adjustment, !.reason = "waste"]
  /\ UNCHANGED <<categories, inventory, reports>>

\* ------------------------------------------------------------ statistics
\* Amounts (revenue, discount, order and review counts) are whole numbers;
\* a number with two decimals is held as its count of hundredths.
Abs(x) == IF x < 0 THEN 0 - x ELSE x

\* Null: the model does not tell null from undefined
Null == Undefined

\* (num / den).toFixed(2) for den > 0, in hundredths: the nearest number with
\* two decimals, a tie going away from zero
ToFixed2_Truncates(num, den) ==
  LET q == (Abs(num) * 100) \div den
  IN IF num < 0 THEN 0 - q ELSE q

ToFixed2(num, den) ==
  LET q == (2 * Abs(num) * 100 + den) \div (2 * den)
  IN IF num < 0 THEN 0 - q ELSE q

\* prior > 0 ? ((current - prior) / prior * 100).toFixed(2) : 0, in hundredths
GrowthRate(current, prior) ==
  IF prior > 0 THEN ToFixed2((current - prior) * 100, prior) ELSE 0

\* the dish a statistics entry refers to: its index in the collection, 0 for none
FindById(data, id) == FindIndexById(data, id)

\* topDishes and dishReviews entries joined with the dish collection
EnrichWithDish(ds, entry) ==
  LET dish == FindById(ds, entry.dishId)
  IN [dishId |-> entry.dishId,
      dishName |-> IF dish # 0 THEN ds[dish].name ELSE "Unknown Dish",
      dishPrice |-> IF dish # 0 THEN ds[dish].price ELSE 0,
      categoryId |-> IF dish # 0 THEN Some(ds[dish].categoryId) ELSE Null]

\* getOrderStatistics: the enriched top dishes and the two growth rates
GetOrderStatistics(orderStats) ==
  /\ last' = [NoCall EXCEPT
       !.op = "getOrderStatistics",
       !.args = orderStats,
       !.result =
         [topDishes |-> [i \in DOMAIN orderStats.topDishes |->
                           EnrichWithDish(dishes, orderStats.topDishes[i])],
          revenueGrowthRate |->
            GrowthRate(orderStats.todayRevenue, orderStats.yesterdayRevenue),
          orderGrowthRate |->
            GrowthRate(orderStats.todayOrders, orderStats.yesterdayOrders)]]
  /\ UNCHANGED <<categories, dishes, inventory, reports, inflight>>

\* calculateReviewTrend(monthlyTrend); averageRating is held in tenths
CalculateReviewTrend(monthlyTrend) ==
  IF Len(monthlyTrend) < 2
  THEN [direction |-> "stable", change |-> Some(0),
        reviewChange |-> Undefined, reviewGrowthRate |-> Undefined]
  ELSE LET latest == monthlyTrend[Len(monthlyTrend)]
           previous == monthlyTrend[Len(monthlyTrend) - 1]
           ratingChange == latest.averageRating - previous.averageRating
           reviewChange == latest.totalReviews - previous.totalReviews
       IN [direction |-> IF ratingChange > 1 THEN "improving"
                         ELSE IF ratingChange < 0 - 1 THEN "declining" ELSE "stable",
           change |-> Undefined,
           reviewChange |-> Some(reviewChange),
           reviewGrowthRate |-> Some(GrowthRate(latest.totalReviews,
                                                previous.totalReviews))]

\* getReviewStatistics: the enriched dish reviews and the review trend
GetReviewStatistics(reviewStats) ==
  /\ last' = [NoCall EXCEPT
       !.op = "getReviewStatistics",
       !.args = reviewStats,
       !.result =
         [dishReviews |-> [i \in DOMAIN reviewStats.dishReviews |->
                             EnrichWithDish(dishes, reviewStats.dishReviews[i])],
          reviewTrend |-> CalculateReviewTrend(reviewStats.monthlyTrend)]]
  /\ UNCHANGED <<categories, dishes, inventory, reports, inflight>>

\* A JavaScript number with two decimals, or one of the values a division by
\* zero produces
Finite(hundredths) == [isFinite |-> TRUE, hundredths |-> hundredths, value |-> "finite"]

NonFinite(value) == [isFinite |-> FALSE, hundredths |-> 0, value |-> value]

\* parseFloat((num / den).toFixed(2)) for den >= 0
DivideToFixed2(num, den) ==
  IF den # 0 THEN Finite(ToFixed2(num, den))
  ELSE IF num > 0 THEN NonFinite("Infinity")
  ELSE IF num < 0 THEN NonFinite("-Infinity")
  ELSE NonFinite("NaN")

\* roi of getPromotionAnalytics
Roi(promotion) ==
  IF promotion.totalRevenue > 0
  THEN DivideToFixed2((promotion.totalRevenue - promotion.discountGiven) * 100,
                      promotion.discountGiven)
  ELSE Finite(0)

\* applicableDishes of getPromotionAnalytics: the dishes found, nulls filtered out
ApplicableDishes(ds, applicableDishes) ==
  LET found == SelectSeq(applicableDishes, LAMBDA ref : FindById(ds, ref.dishId) # 0)
  IN [i \in DOMAIN found |->
        LET dish == ds[FindById(ds, found[i].dishId)]
        IN [id |-> dish.id, name |-> dish.name, price |-> dish.price,
            categoryId |-> Some(dish.categoryId)]]

\* getPromotionAnalytics for a promotion that is found
GetPromotionAnalytics(promotion) ==
  /\ last' = [NoCall EXCEPT
       !.op = "getPromotionAnalytics",
       !.args = promotion,
       !.result = [applicableDishes |-> ApplicableDishes(dishes, promotion.applicableDishes),
                   roi |-> Roi(promotion)]]
  /\ UNCHANGED <<categories, dishes, inventory, reports, inflight>>

\* Math.log(x) in ten-thousandths, for the arguments the review counts produce:
\* 1, 2 and 201
Log(x) ==
  IF x = 1 THEN 0
  ELSE IF x = 2 THEN 6931
  ELSE 53033

\* the score findTopRatedDish compares: averageRating * Math.log(totalReviews + 1),
\* the rating in tenths
TopRatedScore_RatingOnly(dishReview) == dishReview.averageRating

TopRatedScore(dishReview) == dishReview.averageRating * Log(dishReview.totalReviews + 1)

\* dishReviews.reduce((top, current) => ...) from entry i on, top being the
\* entry kept so far
RECURSIVE ReduceTopRated(_, _, _)
ReduceTopRated(dishReviews, i, top) ==
  IF i > Len(dishReviews) THEN top
  ELSE LET current == dishReviews[i]
       IN ReduceTopRated(dishReviews, i + 1,
                         IF TopRatedScore(current) > TopRatedScore(top)
                         THEN current ELSE top)

\* findTopRatedDish(dishReviews): the entry, or Null for an empty list
FindTopRatedDish(dishReviews) ==
  IF Len(dishReviews) = 0 THEN Null
  ELSE Some(ReduceTopRated(dishReviews, 2, dishReviews[1]))

TopRatedDish(dishReviews) ==
  /\ last' = [NoCall EXCEPT !.op = "findTopRatedDish", !.args = dishReviews,
                            !.result = FindTopRatedDish(dishReviews)]
  /\ UNCHANGED <<categories, dishes, inventory, reports, inflight>>

\* calculateEffectivenessScore, computed exactly: a number is the fraction
\* num / den with den > 0, or Infinity. conversionRate is given in hundredths,
\* so conversionRate * 100 is that count.
Fraction(num, den) == [isFinite |-> TRUE, num |-> num, den |-> den]

Infinity == [isFinite |-> FALSE, num |-> 1, den |-> 1]

\* a + b
Plus(a, b) ==
  IF a.isFinite /\ b.isFinite
  THEN Fraction(a.num * b.den + b.num * a.den, a.den * b.den)
  ELSE Infinity

\* a Math.min that returns its first argument
MathMin_First(a, b) == a

\* Math.min(a, b) for a finite b

MathMin(a, b) ==
  IF ~a.isFinite THEN b
  ELSE IF a.num * b.den <= b.num * a.den THEN a ELSE b

\* roi of calculateEffectivenessScore
RoiBonus(promotion) ==
  IF promotion.totalRevenue > promotion.discountGiven
  THEN IF promotion.discountGiven = 0 THEN Infinity
       ELSE IF promotion.discountGiven > 0
       THEN Fraction((promotion.totalRevenue - promotion.discountGiven) * 10,
                     promotion.discountGiven)
       ELSE Fraction((promotion.discountGiven - promotion.totalRevenue) * 10,
                     0 - promotion.discountGiven)
  ELSE Fraction(0, 1)

\* the score in hundredths, as toFixed(2) writes it
CalculateEffectivenessScore(promotion) ==
  LET conversionScore == Fraction(promotion.conversionRate, 1)
      roi == RoiBonus(promotion)
      volumeScore == MathMin(Fraction(promotion.totalOrders, 10), Fraction(20, 1))
      score == MathMin(Plus(Plus(conversionScore, roi), volumeScore), Fraction(100, 1))
  IN ToFixed2(score.num, score.den)

EffectivenessScore(promotion) ==
  /\ last' = [NoCall EXCEPT !.op = "calculateEffectivenessScore",
                            !.args = promotion,
                            !.result = CalculateEffectivenessScore(promotion)]
  /\ UNCHANGED <<categories, dishes, inventory, reports, inflight>>
\* --------------------------------------------------------------- reports
\* A string whose letter case matters is its lower-case text with the set of
\* positions written in upper case: 'Inventory' is "inventory" with caps {1}.
Str(text) == [text |-> text, caps |-> {}]

ToLowerCase(str) == [str EXCEPT !.caps = {}]

\* The values of a report, told apart by their JavaScript type; a string that
\* toFixed(2) made is the number's count of hundredths.
Num(n) == [kind |-> "number", num |-> n, str |-> ""]

Text(t) == [kind |-> "string", num |-> 0, str |-> t]

Fixed2(hundredths) == [kind |-> "fixed2", num |-> hundredths, str |-> ""]

NullValue == [kind |-> "null", num |-> 0, str |-> ""]

UndefinedValue == [kind |-> "undefined", num |-> 0, str |-> ""]

NumOrUndefined(opt) == IF opt = Undefined THEN UndefinedValue ELSE Num(opt[1])

\* the rows of generateInventoryReport
GenerateInventoryReport(inv, ds) ==
  [i \in DOMAIN inv |->
     LET item == inv[i]
         dish == FindById(ds, item.dishId)
     IN [dishId |-> Num(item.dishId),
         dishName |-> Text(IF dish # 0 THEN ds[dish].name ELSE "Unknown"),
         currentStock |-> Num(item.stock),
         alertThreshold |-> NumOrUndefined(item.alertThreshold),
         stockStatus |-> Text(IF item.alertThreshold # Undefined
                                 /\ item.stock <= item.alertThreshold[1]
                              THEN "Low Stock" ELSE "Normal"),
         supplier |-> Text(item.supplier),
         cost |-> Num(item.cost),
         totalValue |-> Fixed2(item.stock * item.cost * 100),
         expiryDate |-> IF item.expiryDate = Null THEN NullValue
                        ELSE Text(item.expiryDate[1]),
         lastUpdated |-> Text(item.lastUpdated)]]

\* The report a generator returns: an array of rows, or an object held as the
\* sequence of its leaves (path of enclosing keys, key, value) in key order.
ArrayReport(items) == [isArray |-> TRUE, items |-> items, leaves |-> << >>]

ObjectReport(reportType) ==
  [isArray |-> FALSE, items |-> << >>,
   leaves |-> <<[path |-> "summary.", key |-> "reportType", value |-> Text(reportType)]>>]

\* the switch of exportReport: the generator's name, "" for the default branch
ReportGenerator_OrdersAsSales(type) ==
  IF ToLowerCase(type).text \in {"sales", "orders"} THEN "sales"
  ELSE IF ToLowerCase(type).text \in {"inventory", "reviews", "promotions"}
  THEN ToLowerCase(type).text ELSE ""

ReportGenerator(type) ==
  IF ToLowerCase(type).text \in {"sales", "inventory", "reviews", "promotions"}
  THEN ToLowerCase(type).text ELSE ""

GenerateReport(generator, inv, ds) ==
  IF generator = "inventory" THEN ArrayReport(GenerateInventoryReport(inv, ds))
  ELSE IF generator = "sales" THEN ObjectReport("Sales Report")
  ELSE IF generator = "reviews" THEN ObjectReport("Reviews Report")
  ELSE ObjectReport("Promotions Report")

\* CSV text: a header row and the rows after it, each a sequence of fields
Headers ==
  <<"Dish ID", "Dish Name", "Current Stock", "Alert Threshold", "Stock Status",
    "Supplier", "Cost", "Total Value", "Expiry Date", "Last Updated">>

ReportKeys ==
  <<"dishId", "dishName", "currentStock", "alertThreshold", "stockStatus",
    "supplier", "cost", "totalValue", "expiryDate", "lastUpdated">>

Quoted(value) == [quoted |-> TRUE, value |-> value]

Bare(value) == [quoted |-> FALSE, value |-> value]

\* the prefix flattenObject gives the keys of the array element at index i - 1
IndexPrefix(i) == <<"0.", "1.", "2.", "3.">>[i]

\* the leaves of flattenObject(obj) for a report
RECURSIVE FlattenItems(_, _)
FlattenItems(items, i) ==
  IF i > Len(items) THEN << >>
  ELSE [k \in DOMAIN ReportKeys |->
          [path |-> IndexPrefix(i), key |-> ReportKeys[k], value |-> items[i][ReportKeys[k]]]]
       \o FlattenItems(items, i + 1)

FlattenObject(data) ==
  IF data.isArray THEN FlattenItems(data.items, 1) ELSE data.leaves

ObjectToCSV(obj) ==
  LET flattened == FlattenObject(obj)
  IN [header |-> [k \in DOMAIN flattened |->
                    Bare([path |-> flattened[k].path, key |-> flattened[k].key])],
      rows |-> <<[k \in DOMAIN flattened |-> Quoted(flattened[k].value)]>>]

ConvertToCSV(data, type) ==
  IF type = Str("inventory") /\ data.isArray
  THEN [header |-> [k \in DOMAIN Headers |-> Quoted([path |-> "", key |-> Headers[k]])],
        rows |-> [i \in DOMAIN data.items |->
                    [k \in DOMAIN ReportKeys |->
                       Quoted(IF ReportKeys[k] = "expiryDate"
                                 /\ data.items[i].expiryDate = NullValue
                              THEN Text("")
                              ELSE data.items[i][ReportKeys[k]])]]]
  ELSE ObjectToCSV(data)

\* the reports directory after saveReportFile: a file of the same name is
\* overwritten (the date in the name is the same throughout)
SaveReportFile(files, filename, extension, content) ==
  {f \in files : ~(f.filename = filename /\ f.extension = extension)}
    \cup {[filename |-> filename, extension |-> extension, content |-> content]}

\* what exportReport(type, format) returns or throws, and the directory after it
ExportReportOutcome(files, type, format, inv, ds) ==
  LET generator == ReportGenerator(type)
      reportData == GenerateReport(generator, inv, ds)
      extension == IF ToLowerCase(format) = Str("csv") THEN "csv" ELSE "json"
      content == IF extension = "csv"
                 THEN [csv |-> <<ConvertToCSV(reportData, type)>>, json |-> << >>]
                 ELSE [csv |-> << >>, json |-> <<reportData>>]
  IN IF generator = ""
     THEN [ok |-> FALSE, err |-> "Unsupported report type", format |-> "",
           filePath |-> Undefined, recordCount |-> 0, files |-> files]
     ELSE [ok |-> TRUE, err |-> "", format |-> extension,
           filePath |-> Some([filename |-> generator, extension |-> extension]),
           recordCount |-> IF reportData.isArray THEN Len(reportData.items) ELSE 1,
           files |-> SaveReportFile(files, generator, extension, content)]

\* StatsService.exportReport
ExportReport(type, format) ==
  LET outcome == ExportReportOutcome(reports, type, format, inventory, dishes)
  IN /\ reports' = outcome.files
     /\ last' = [NoCall EXCEPT !.op = "exportReport", !.ok = outcome.ok,
                               !.err = outcome.err,
                               !.args = [type |-> type, format |-> format],
                               !.result = [format |-> outcome.format,
                                           filePath |-> outcome.filePath,
                                           recordCount |-> outcome.recordCount]]
     /\ UNCHANGED <<categories, dishes, inventory, inflight>>

\* reportExportSchema: the validated value, or no value when the query is refused
ValidTypes ==
  {Str(t) : t \in {"sales", "inventory", "reviews", "promotions", "orders", "analytics"}}

ValidFormats == {Str(f) : f \in {"json", "csv", "xlsx"}}

ValidateReportExport(queryData) ==
  IF queryData.type # Undefined /\ queryData.type[1] \in ValidTypes
     /\ queryData.format[1] \in ValidFormats
  THEN Some([type |-> queryData.type[1], format |-> queryData.format[1]])
  ELSE Undefined

\* ReportsController.exportReport: GET /reports/export?type=..&format=..
ExportReportRequest(query) ==
  LET queryData == [type |-> query.type,
                    format |-> IF query.format = Undefined THEN Some(Str("json"))
                               ELSE query.format]
      validated == ValidateReportExport(queryData)
      value == validated[1]
      outcome == ExportReportOutcome(reports, value.type, value.format, inventory, dishes)
  IN /\ reports' = IF validated = Undefined THEN reports ELSE outcome.files
     /\ last' = [NoCall EXCEPT
          !.op = "exportReportRequest",
          !.args = query,
          !.ok = validated # Undefined /\ outcome.ok,
          !.result =
            IF validated = Undefined
            THEN [status |-> 400, code |-> "VALIDATION_ERROR", format |-> "",
                  filePath |-> Undefined]
            ELSE IF ~outcome.ok
            THEN [status |-> IF outcome.err = "Unsupported report type" THEN 400 ELSE 500,
                  code |-> IF outcome.err = "Unsupported report type"
                           THEN "UNSUPPORTED_TYPE" ELSE "INTERNAL_ERROR",
                  format |-> "", filePath |-> Undefined]
            ELSE [status |-> 200, code |-> "",
                  format |-> IF value.format = Str("csv") THEN outcome.format
                             ELSE value.format.text,
                  filePath |-> outcome.filePath]]
     /\ UNCHANGED <<categories, dishes, inventory, inflight>>

\* ------------------------------------------------------ inventory records
\* The inventory record with every field updateDishStock writes, each field
\* holding a JavaScript value (cost in hundredths); lastUpdated, a clock
\* reading, is left out. JSON.stringify does not write a key whose value is
\* undefined: a field that is UndefinedValue is a field the stored record
\* does not have.

\* whether a || b takes b
Falsy(a) ==
  \/ a.kind \in {"undefined", "null"}
  \/ a.kind = "number" /\ a.num = 0
  \/ a.kind = "string" /\ a.str = ""

Or(a, b) == IF Falsy(a) THEN b ELSE a

\* additionalData.key
Field(additionalData, key) ==
  IF key \in DOMAIN additionalData THEN additionalData[key] ELSE UndefinedValue

\* newInventoryItem of updateDishStock
NewInventoryItem(dishId, newStock, additionalData) ==
  [dishId |-> dishId,
   stock |-> newStock,
   alertThreshold |-> Or(Field(additionalData, "alertThreshold"),
                         Num(DefaultAlertThreshold)),
   supplier |-> Or(Field(additionalData, "supplier"), Text("")),
   cost |-> Or(Field(additionalData, "cost"), Num(0)),
   expiryDate |-> Or(Field(additionalData, "expiryDate"), NullValue)]

\* updatedInventoryItem of updateDishStock
UpdatedInventoryItem(item, newStock, additionalData) ==
  Spread([item EXCEPT !.stock = newStock], additionalData)

\* the inventory collection after updateDishStock(dishId, newStock, additionalData)
UpdateDishStockRecords(inv, dishId, newStock, additionalData) ==
  LET inventoryIndex == FindIndexByDishId(inv, dishId)
  IN IF inventoryIndex = 0
     THEN Append(inv, NewInventoryItem(dishId, newStock, additionalData))
     ELSE [inv EXCEPT ![inventoryIndex] =
             UpdatedInventoryItem(inv[inventoryIndex], newStock, additionalData)]

\* the additionalData the controller and the batch loop build: the four keys,
\* each with the value of the body or entry, undefined when it has none
AdditionalData(value) ==
  [alertThreshold |-> value.alertThreshold, supplier |-> value.supplier,
   cost |-> value.cost, expiryDate |-> value.expiryDate]

\* PUT /dish/:id/stock with a body that passed updateStockSchema
UpdateStockRequest(dishId, value) ==
  LET inv == UpdateDishStockRecords(inventory, dishId, value.stock, AdditionalData(value))
  IN /\ inventory' = inv
     /\ dishes' = UpdateDishStockField(dishes, dishId, value.stock)
     /\ last' = [NoCall EXCEPT
                   !.op = "updateStockRequest", !.id = dishId, !.n = value.stock,
                   !.created = IF FindIndexByDishId(inventory, dishId) = 0 THEN 1 ELSE 0,
                   !.args = <<value>>,
                   !.result = <<inv[FindIndexByDishId(inv, dishId)]>>]
     /\ UNCHANGED <<categories, reports, inflight>>

\* the inventory collection after the first i entries of a batch whose
\* entries passed batchStockUpdateSchema
RECURSIVE BatchUpdateRecordsFrom(_, _, _)
BatchUpdateRecordsFrom(stockUpdates, i, inv) ==
  IF i > Len(stockUpdates)
  THEN inv
  ELSE LET update == stockUpdates[i]
       IN BatchUpdateRecordsFrom(stockUpdates, i + 1,
            UpdateDishStockRecords(inv, update.dishId, update.stock,
                                   AdditionalData(update)))

\* the dish collection after the entries of a batch
RECURSIVE BatchUpdateFieldsFrom(_, _, _)
BatchUpdateFieldsFrom(stockUpdates, i, ds) ==
  IF i > Len(stockUpdates)
  THEN ds
  ELSE BatchUpdateFieldsFrom(stockUpdates, i + 1,
         UpdateDishStockField(ds, stockUpdates[i].dishId, stockUpdates[i].stock))

\* PUT /batch/stock
BatchUpdateStockRequest(stockUpdates) ==
  /\ inventory' = BatchUpdateRecordsFrom(stockUpdates, 1, inventory)
  /\ dishes' = BatchUpdateFieldsFrom(stockUpdates, 1, dishes)
  /\ last' = [NoCall EXCEPT !.op = "batchUpdateStockRequest",
                            !.n = Len(stockUpdates), !.args = stockUpdates]
  /\ UNCHANGED <<categories, reports, inflight>>
\* inventory.reduce((sum, item) => sum + item.stock, 0) over the records from i on
RECURSIVE TotalStock(_, _)
TotalStock(inv, i) ==
  IF i > Len(inv) THEN 0 ELSE inv[i].stock + TotalStock(inv, i + 1)

\* inventory.reduce((sum, item) => sum + (item.stock * item.cost), 0) over the
\* records from i on, every cost being a number
RECURSIVE TotalValue(_, _)
TotalValue(inv, i) ==
  IF i > Len(inv) THEN 0
  ELSE inv[i].stock * inv[i].cost.num + TotalValue(inv, i + 1)

\* item.stock <= item.alertThreshold: false against undefined
AtOrBelowThreshold(item) ==
  item.alertThreshold.kind = "number" /\ item.stock <= item.alertThreshold.num

IsOutOfStock(item) == item.stock = 0

\* the summary of getInventorySummary, lastUpdated left out. soon tells
\* whether the expiry date the records carry lies within the next three
\* days. totalValue and averageStockPerItem are in hundredths; a record
\* without a cost makes totalValue NaN.
InventorySummary(inv, soon) ==
  LET totalItems == Len(inv)
      totalStock == TotalStock(inv, 1)
      lowStockItems == Len(SelectSeq(inv, AtOrBelowThreshold))
      outOfStockItems == Len(SelectSeq(inv, IsOutOfStock))
      expiringItems ==
        Len(SelectSeq(inv, LAMBDA item : ~Falsy(item.expiryDate) /\ soon))
      totalValue ==
        IF \E i \in DOMAIN inv : inv[i].cost.kind # "number"
        THEN Text("NaN")
        ELSE Num(TotalValue(inv, 1))
  IN [totalItems |-> totalItems,
      totalStock |-> totalStock,
      lowStockItems |-> lowStockItems,
      outOfStockItems |-> outOfStockItems,
      expiringItems |-> expiringItems,
      totalValue |-> totalValue,
      averageStockPerItem |->
        IF totalItems > 0 THEN ToFixed2(totalStock, totalItems) ELSE 0,
      stockStatus |-> [healthy |-> totalItems - lowStockItems - outOfStockItems,
                       lowStock |-> lowStockItems,
                       outOfStock |-> outOfStockItems]]

GetInventorySummary(soon) ==
  /\ last' = [NoCall EXCEPT !.op = "getInventorySummary",
                            !.result = InventorySummary(inventory, soon)]
  /\ UNCHANGED <<categories, dishes, inventory, reports, inflight>>
\* --------------------------------------------------------- expiring items
DefaultDays == 7

MinDays == 1

MaxDays == 365

\* GET /inventory/expiring. days is the integer the query names, undefined
\* when the query has none: parseInt gives NaN then, and NaN || 7 is 7 as
\* 0 || 7 is. An expiryDate is the number of days from now to it, null when
\* the record has none.
GetExpiringItems(days) ==
  LET withinDays == OrElse(days, DefaultDays)
      expiringItems ==
        SelectSeq(inventory,
                  LAMBDA item : /\ ~Falsy(item.expiryDate)
                                /\ item.expiryDate.num <= withinDays
                                /\ item.expiryDate.num >= 0)
  IN /\ last' = [NoCall EXCEPT
                   !.op = "getExpiringItems",
                   !.args = days,
                   !.result =
                     IF withinDays < MinDays \/ withinDays > MaxDays
                     THEN [status |-> 400, code |-> "VALIDATION_ERROR",
                           withinDays |-> 0, data |-> << >>]
                     ELSE [status |-> 200, code |-> "",
                           withinDays |-> withinDays, data |-> expiringItems]]
     /\ UNCHANGED <<categories, dishes, inventory, reports, inflight>>
\* ----------------------------------------------------------- input sets
StatusPatches ==
  {Supplied([categoryId |-> c, status |-> s, stock |-> Undefined]) :
     c \in Optional(CatIds), s \in Optional(Statuses)}

StockPatches == {[stock |-> k] : k \in StockValues}

MenuDishData == [categoryId : CatIds, status : Optional(Statuses), stock : {Undefined}]

StockDishData == [categoryId : CatIds, status : {Undefined}, stock : Optional(StockValues)]

BatchEntries ==
  [dishId : {Some(d) : d \in DishIds}, stock : {Some(k) : k \in StockValues},
   alertThreshold : {Undefined}]

Batches == UNION {[1..n -> BatchEntries] : n \in 1..MaxBatch}

\* ------------------------------------------------------- specifications
\* the menu service
Next ==
  \/ CreateCategory
  \/ \E c \in CatIds, b \in BOOLEAN : UpdateCategory(c, [isActive |-> b])
  \/ \E c \in CatIds : DeleteCategory(c)
  \/ \E d \in MenuDishData : CreateDish(d)
  \/ \E id \in DishIds, p \in StatusPatches : UpdateDish(id, p)
  \/ \E id \in DishIds : DeleteDish(id)
  \/ \E id \in DishIds, s \in Statuses : UpdateDishStatus(id, s)

Spec == Init /\ [][Next]_vars

\* the inventory service, with the menu operations that touch stock
InitInventory ==
  /\ categories = <<[id |-> 1, isActive |-> TRUE]>>
  /\ dishes = << >>
  /\ inventory = << >>
  /\ reports = {}
  /\ inflight = << >>
  /\ last = NoCall

NextInventory ==
  \/ \E d \in StockDishData : CreateDish(d)
  \/ \E id \in DishIds, p \in StockPatches : UpdateDish(id, p)
  \/ \E id \in DishIds, k \in StockValues, t \in Optional(0..MaxThreshold) :
       UpdateStock(id, k, t)
  \/ \E id \in DishIds, a \in Deltas, r \in Reasons : AdjustStock(id, a, r)
  \/ \E b \in Batches : BatchUpdateStock(b)
  \/ SynchronizeInventory
  \/ \E t \in Optional(0..MaxThreshold) : GetLowStockDishes(t)

SpecInventory == InitInventory /\ [][NextInventory]_vars

\* synchronisation: dishes and inventory records drift apart through stock
\* patches, stock updates for ids no dish has yet, and inventory entries that
\* createDish could not write
NextSync ==
  \/ \E d \in StockDishData : CreateDish(d)
  \/ \E d \in StockDishData : CreateDishInventoryWriteFails(d)
  \/ \E id \in DishIds, p \in StockPatches : UpdateDish(id, p)
  \/ \E id \in DishIds, k \in StockValues, t \in Optional(0..MaxThreshold) :
       UpdateStock(id, k, t)
  \/ SynchronizeInventory

SpecSync == InitInventory /\ [][NextSync]_vars

\* batchUpdateStock as a service function: an entry may lack dishId or stock,
\* and the inventory write of a complete entry may fail
ServiceBatchEntries ==
  {[update |-> [dishId |-> Undefined, stock |-> Some(0), alertThreshold |-> Undefined],
    writable |-> TRUE],
   [update |-> [dishId |-> Some(1), stock |-> Undefined, alertThreshold |-> Undefined],
    writable |-> TRUE]}
  \cup [update : BatchEntries, writable : BOOLEAN]

ServiceBatches == UNION {[1..n -> ServiceBatchEntries] : n \in 1..MaxBatch}

NextBatch ==
  \/ \E d \in StockDishData : CreateDish(d)
  \/ \E b \in ServiceBatches :
       BatchUpdateStockWith([i \in DOMAIN b |-> b[i].update],
                            [i \in DOMAIN b |-> b[i].writable])

SpecBatch == InitInventory /\ [][NextBatch]_vars

\* the statistics service: the collections are only read, and the statistics
\* files are what each call is given
Amounts == 0..MaxAmount

StatsDish(id) ==
  [id |-> id, categoryId |-> 1, status |-> "on", stock |-> 0,
   name |-> IF id = 1 THEN "Dish A" ELSE "Dish B", price |-> 10 + id]

StatsDishes == {[i \in 1..n |-> StatsDish(i)] : n \in 0..MaxDishes}

\* references to dishes, one of them to a dish that never exists
Refs == UNION {[1..n -> [dishId : 1..(MaxDishes + 1)]] : n \in 0..MaxRefs}

OrderStats ==
  [todayRevenue : Amounts, yesterdayRevenue : Amounts,
   todayOrders : {0, MaxAmount}, yesterdayOrders : {0, MaxAmount}, topDishes : Refs]

Months == [averageRating : {40, 45}, totalReviews : {0, MaxAmount - 1, MaxAmount}]

MonthlyTrends == UNION {[1..n -> Months] : n \in 0..2}

InitStats ==
  /\ categories = <<[id |-> 1, isActive |-> TRUE]>>
  /\ dishes \in StatsDishes
  /\ inventory = << >>
  /\ reports = {}
  /\ inflight = << >>
  /\ last = NoCall

ReviewStats == [dishReviews : Refs, monthlyTrend : MonthlyTrends]

Promotions == [totalRevenue : Amounts, discountGiven : Amounts, applicableDishes : Refs]

NextStats ==
  \/ \E orderStats \in OrderStats : GetOrderStatistics(orderStats)
  \/ \E reviewStats \in ReviewStats : GetReviewStatistics(reviewStats)
  \/ \E promotion \in Promotions : GetPromotionAnalytics(promotion)

SpecStats == InitStats /\ [][NextStats]_vars

\* report export: the collections are only read, the reports directory grows
Types == [text : {"sales", "inventory", "orders", "analytics"}, caps : {{}, {1}}]

Formats == [text : {"json", "csv", "xlsx"}, caps : {{}, {1}}]

ReportInventoryItem(dishId) ==
  [dishId |-> dishId, stock |-> 0, alertThreshold |-> Some(DefaultAlertThreshold),
   supplier |-> "", cost |-> 0, expiryDate |-> Null, lastUpdated |-> "2024-11-01"]

ReportInventories == {[i \in 1..n |-> ReportInventoryItem(i)] : n \in 0..MaxDishes}

InitExport ==
  /\ categories = <<[id |-> 1, isActive |-> TRUE]>>
  /\ dishes = <<StatsDish(1)>>
  /\ inventory \in ReportInventories
  /\ reports = {}
  /\ inflight = << >>
  /\ last = NoCall

NextExport ==
  \/ \E type \in Types, format \in Formats : ExportReport(type, format)
  \/ \E query \in [type : Optional(Types), format : Optional(Formats)] :
       ExportReportRequest(query)

SpecExport == InitExport /\ [][NextExport]_vars

\* the scoring functions of the statistics service, applied to what the
\* statistics files may hold
Ratings == [averageRating : {45, 49}, totalReviews : {0, 1, 200}]

\* review lists: the entry at position i is the review of dish i
DishReviews ==
  UNION {{[i \in 1..n |-> [dishId |-> i, averageRating |-> r[i].averageRating,
                           totalReviews |-> r[i].totalReviews]] :
            r \in [1..n -> Ratings]} : n \in 0..(MaxRefs + 1)}

\* promotions: conversion rates 0, 0.15 and 1, a discount that may be 0 or
\* negative, order counts below and above the 200 that reach the volume cap
ScoredPromotions ==
  [conversionRate : {0, 15, 100}, totalRevenue : Amounts,
   discountGiven : (0 - 1)..MaxAmount, totalOrders : {0, 5, 200, 250}]

NextScores ==
  \/ \E dishReviews \in DishReviews : TopRatedDish(dishReviews)
  \/ \E promotion \in ScoredPromotions : EffectivenessScore(promotion)

SpecScores == InitStats /\ [][NextScores]_vars

\* two adjustStock requests for dish 1, which has a record, in two processes
InitConcurrent ==
  /\ categories = <<[id |-> 1, isActive |-> TRUE]>>
  /\ \E k \in StockValues :
       /\ dishes = <<[id |-> 1, categoryId |-> 1, status |-> "on", stock |-> k]>>
       /\ inventory = CreateInventoryEntry(<< >>, 1, k)
  /\ reports = {}
  /\ inflight = [r \in Requests |-> Idle]
  /\ last = NoCall

NextConcurrent ==
  \/ \E r \in Requests, a \in Deltas : Submit(r, 1, a)
  \/ \E r \in Requests : GetInventoryByDishId(r)
  \/ \E r \in Requests : ReadInventory(r)
  \/ \E r \in Requests : WriteInventory(r)
  \/ \E r \in Requests : ReadDishes(r)
  \/ \E r \in Requests : WriteDishes(r)

SpecConcurrent == InitConcurrent /\ [][NextConcurrent]_vars

\* update bodies that also carry an id
CategoryIdPatches == [id : CatIds, isActive : BOOLEAN]

DishIdPatches ==
  {Supplied([id |-> i, categoryId |-> c, status |-> s, stock |-> Undefined]) :
     i \in Optional(DishIds), c \in Optional(CatIds), s \in Optional(Statuses)}

\* the menu service, called with update bodies that name another id
NextIds ==
  \/ CreateCategory
  \/ \E c \in CatIds, p \in CategoryIdPatches : UpdateCategory(c, p)
  \/ \E c \in CatIds : DeleteCategory(c)
  \/ \E d \in MenuDishData : CreateDish(d)
  \/ \E id \in DishIds, p \in DishIdPatches : UpdateDish(id, p)
  \/ \E id \in DishIds : DeleteDish(id)

SpecIds == Init /\ [][NextIds]_vars
\* update-stock bodies that pass updateStockSchema
RequestThresholds == {UndefinedValue, Num(0), Num(DefaultAlertThreshold - 2)}

RequestSuppliers == {UndefinedValue, Text("acme")}

RequestCosts == {UndefinedValue, Num(0), Num(250)}

RequestExpiryDates == {UndefinedValue, Text("2027-01-01")}

StockRequests ==
  [stock : StockValues, alertThreshold : RequestThresholds,
   supplier : RequestSuppliers, cost : RequestCosts, expiryDate : RequestExpiryDates]

\* batch entries with dishId and stock only
StockOnlyEntries ==
  [dishId : DishIds, stock : StockValues, alertThreshold : {UndefinedValue},
   supplier : {UndefinedValue}, cost : {UndefinedValue}, expiryDate : {UndefinedValue}]

\* update-stock requests for dish 1, one-entry batches and the summary, on
\* an empty store
NextRecords ==
  \/ \E value \in StockRequests : UpdateStockRequest(1, value)
  \/ \E update \in StockOnlyEntries : BatchUpdateStockRequest(<<update>>)
  \/ \E soon \in BOOLEAN : GetInventorySummary(soon)

SpecRecords == Init /\ [][NextRecords]_vars
\* the adjust-stock endpoint, on dishes created with their inventory entries
NextAdjust ==
  \/ \E d \in StockDishData : CreateDish(d)
  \/ \E id \in DishIds, p \in StockPatches : UpdateDish(id, p)
  \/ \E id \in DishIds, a \in Deltas, r \in Reasons : AdjustStockRequest(id, a, r)

SpecAdjust == InitInventory /\ [][NextAdjust]_vars
\* the expiring-items endpoint on inventories whose records expire tomorrow,
\* in 8 days, in 400 days or never
ExpiryDates == {NullValue, Num(MinDays), Num(DefaultDays + 1), Num(MaxDays + 35)}

ExpiringInventories ==
  {[i \in 1..MaxDishes |->
      [NewInventoryItem(i, 0, << >>) EXCEPT !.expiryDate = e[i]]] :
     e \in [1..MaxDishes -> ExpiryDates]}

DaysParameters ==
  Optional({0 - 1, 0, MinDays, MinDays + 1, DefaultDays, DefaultDays + 1,
            MaxDays, MaxDays + 1})

InitExpiring ==
  /\ categories = << >>
  /\ dishes = << >>
  /\ inventory \in ExpiringInventories
  /\ reports = {}
  /\ inflight = << >>
  /\ last = NoCall

NextExpiring ==
  \/ \E days \in DaysParameters : GetExpiringItems(days)

SpecExpiring == InitExpiring /\ [][NextExpiring]_vars
\* ------------------------------------------------------------ properties
Conflict == "Cannot delete category with existing dishes"

RecordsOf(inv, dishId) == {i \in DOMAIN inv : inv[i].dishId = dishId}

DishesOf(ds, dishId) == {i \in DOMAIN ds : ds[i].id = dishId}

\* C1: deleteCategory(c) fails with the conflict error exactly when some dish,
\* of whatever status, has categoryId = c; a failed call leaves the categories
\* (c.isActive included) as they were.
C1_DeleteCategoryConflictIffReferenced ==
  [][last'.op = "deleteCategory" =>
       /\ (last'.err = Conflict) <=>
            (\E i \in DOMAIN dishes : dishes[i].categoryId = last'.id)
       /\ (last'.err = Conflict) => categories' = categories]_vars

\* deleteCategory refused although every dish of the category is 'off'
C1_Witness ==
  /\ last.op = "deleteCategory"
  /\ last.err = Conflict
  /\ \E i \in DOMAIN categories : categories[i].id = last.id /\ categories[i].isActive
  /\ Cardinality({i \in DOMAIN dishes : dishes[i].categoryId = last.id}) >= 2
  /\ \A i \in DOMAIN dishes : dishes[i].categoryId = last.id => dishes[i].status = "off"

\* C2: after a successful createDish exactly one inventory record carries the
\* new dish's id, and its stock is the requested initial stock (0 when none
\* was given).
C2_CreateDishOneRecordWithRequestedStock ==
  (last.op = "createDish" /\ last.ok) =>
    /\ Cardinality(RecordsOf(inventory, last.id)) = 1
    /\ \A i \in RecordsOf(inventory, last.id) :
         inventory[i].stock = (IF last.stock = Undefined THEN 0 ELSE last.stock[1])

\* C3: createDish with a categoryId that matches no category fails with
\* 'Category not found' and adds neither a dish nor an inventory record.
C3_CreateDishUnknownCategoryRejected ==
  [][(last'.op = "createDish"
        /\ ~ \E i \in DOMAIN categories : categories[i].id = last'.cat) =>
       /\ last'.err = "Category not found"
       /\ ~ last'.ok
       /\ dishes' = dishes
       /\ inventory' = inventory]_vars

\* createDish was refused for an unknown category while another category exists
C3_Witness ==
  /\ last.op = "createDish"
  /\ last.err = "Category not found"
  /\ categories # << >>
  /\ dishes # << >>
  /\ ~ \E i \in DOMAIN categories : categories[i].id = last.cat

\* C4: every dish that has an inventory record has Dish.stock equal to that
\* record's stock.
C4_DishStockMirrorsInventory ==
  \A d \in DOMAIN dishes : \A i \in RecordsOf(inventory, dishes[d].id) :
    dishes[d].stock = inventory[i].stock

C7_StockNeverNegative ==
  \A i \in DOMAIN inventory : inventory[i].stock \in Nat

\* every dish has a record, one of them emptied by a negative adjustment and
\* another still in stock
C7_Witness ==
  /\ Len(inventory) = MaxDishes
  /\ \E i \in DOMAIN inventory :
       inventory[i].stock = 0 /\ inventory[i].lastAdjustment = Some(0 - 1)
  /\ \E i \in DOMAIN inventory : inventory[i].stock > 0

\* C8: getLowStockDishes(t) returns exactly the records with stock <= t when
\* a threshold t >= 0 is given (t = 0 included), exactly those with
\* stock <= their own alertThreshold when none is given, in ascending stock.
C8_LowStockExactAndSorted ==
  last.op = "getLowStockDishes" =>
    LET expected ==
          {i \in DOMAIN inventory :
             IF last.stock # Undefined
             THEN inventory[i].stock <= last.stock[1]
             ELSE /\ inventory[i].alertThreshold # Undefined
                  /\ inventory[i].stock <= inventory[i].alertThreshold[1]}
    IN /\ {last.list[j] : j \in DOMAIN last.list} = {inventory[i] : i \in expected}
       /\ Len(last.list) = Cardinality(expected)
       /\ \A j \in 1..(Len(last.list) - 1) : last.list[j].stock <= last.list[j + 1].stock

\* C9: a second synchronizeInventory right after a first one returns
\* created = 0 and updated = 0 and leaves the inventory unchanged.
C9_SynchronizeIdempotent ==
  [][(last.op = "synchronizeInventory" /\ last'.op = "synchronizeInventory") =>
       /\ last'.created = 0
       /\ last'.updated = 0
       /\ inventory' = inventory]_vars

\* a first run that both created and overwrote records has just returned
C9_Witness ==
  /\ last.op = "synchronizeInventory"
  /\ last.created > 0
  /\ last.updated > 0

\* C10: after synchronizeInventory every dish has a record whose stock is the
\* dish's stock; created is the number of records added and updated the
\* number of existing records whose stock was overwritten.
C10_SynchronizeReconcilesAndCounts ==
  [][last'.op = "synchronizeInventory" =>
       /\ \A d \in DOMAIN dishes' :
            /\ RecordsOf(inventory', dishes'[d].id) # {}
            /\ \A i \in RecordsOf(inventory', dishes'[d].id) :
                 inventory'[i].stock = dishes'[d].stock
       /\ last'.created = Len(inventory') - Len(inventory)
       /\ last'.updated =
            Cardinality({i \in DOMAIN inventory : inventory'[i].stock # inventory[i].stock})
       /\ \A i \in DOMAIN inventory :
            inventory'[i].stock # inventory[i].stock =>
              \E d \in DishesOf(dishes, inventory[i].dishId) :
                inventory'[i].stock = dishes[d].stock]_vars

\* a run that added a record while a record without a dish was left alone
C10_Witness ==
  /\ last.op = "synchronizeInventory"
  /\ last.created > 0
  /\ Len(inventory) > Len(dishes)
  /\ \A d \in DOMAIN dishes : \E i \in RecordsOf(inventory, dishes[d].id) :
       inventory[i].stock = dishes[d].stock /\ inventory[i].stock > 0

\* C11: inventory records are 1:1 with dishes: no two records share a dishId,
\* and the dishId of every record is the id of an existing dish.
C11_RecordsOneToOneWithDishes ==
  /\ \A i, j \in DOMAIN inventory :
       inventory[i].dishId = inventory[j].dishId => i = j
  /\ \A i \in DOMAIN inventory : DishesOf(dishes, inventory[i].dishId) # {}

\* C12: every dish's categoryId is the id of a category in the category
\* collection.
C12_DishCategoryExists ==
  \A i \in DOMAIN dishes :
    \E j \in DOMAIN categories : categories[j].id = dishes[i].categoryId

\* updateDish has just been refused a categoryId that no category has, and
\* every dish is still in the only category there is
C12_Witness ==
  /\ last.op = "updateDish" /\ last.err = "Category not found"
  /\ Len(categories) = 1
  /\ Len(dishes) = MaxDishes
  /\ \A i \in DOMAIN dishes : dishes[i].categoryId = 1

\* C13: deletion is soft. No step removes a category or a dish: both
\* collections keep their length and every record keeps its place and id. A
\* successful deleteDish changes nothing but the dish's status, which becomes
\* 'off' (the categoryId is kept), and a successful deleteCategory changes
\* nothing but the category's isActive, which becomes false.
C13_DeletionIsSoft ==
  [][/\ Len(categories') >= Len(categories)
     /\ Len(dishes') >= Len(dishes)
     /\ \A i \in DOMAIN categories : categories'[i].id = categories[i].id
     /\ \A i \in DOMAIN dishes : dishes'[i].id = dishes[i].id
     /\ (last'.op = "deleteDish" /\ last'.ok) =>
          /\ categories' = categories
          /\ dishes' = [dishes EXCEPT ![FindIndexById(dishes, last'.id)].status = "off"]
     /\ (last'.op = "deleteCategory" /\ last'.ok) =>
          /\ dishes' = dishes
          /\ categories' =
               [categories EXCEPT ![FindIndexById(categories, last'.id)].isActive = FALSE]
    ]_vars

\* deleteDish has just returned true for the first dish, which is 'off' and
\* still in place before a dish that is 'on'; some category is deactivated
C13_Witness ==
  /\ last.op = "deleteDish" /\ last.ok /\ last.id = 1
  /\ Len(dishes) = MaxDishes
  /\ dishes[1].status = "off" /\ dishes[MaxDishes].status = "on"
  /\ \E i \in DOMAIN categories : ~categories[i].isActive

\* the entries of a batch that are complete and whose write succeeds
AppliedEntries(args) ==
  {i \in DOMAIN args.stockUpdates :
     /\ args.stockUpdates[i].dishId # Undefined
     /\ args.stockUpdates[i].stock # Undefined
     /\ args.writable[i]}

\* C14: batchUpdateStock applies the entries in order. An entry without dishId
\* or stock, or whose update throws, is skipped, and the others are applied
\* all the same: the returned list is the applied entries in request order (so
\* it is no longer than the request), each dish named by an applied entry ends
\* with the stock of the last such entry, and dishes named by none are untouched.
C14_BatchSkipsAndKeepsGoing ==
  [][last'.op = "batchUpdateStockWith" =>
       LET stockUpdates == last'.args.stockUpdates
           applied == AppliedEntries(last'.args)
           order == SelectSeq([i \in DOMAIN stockUpdates |-> i], LAMBDA i : i \in applied)
           returned == last'.result
       IN /\ Len(returned) = Len(order)
          /\ last'.updated = Len(returned) /\ last'.n = Len(stockUpdates)
          /\ last'.updated <= last'.n
          /\ \A k \in DOMAIN order :
               /\ returned[k].dishId = stockUpdates[order[k]].dishId[1]
               /\ returned[k].stock = stockUpdates[order[k]].stock[1]
          /\ Len(dishes') = Len(dishes)
          /\ \A d \in DishIds :
               LET forDish == {i \in applied : stockUpdates[i].dishId[1] = d}
                   final == CHOOSE m \in forDish : \A i \in forDish : i <= m
               IN IF forDish = {}
                  THEN /\ RecordsOf(inventory', d) = RecordsOf(inventory, d)
                       /\ \A j \in RecordsOf(inventory, d) : inventory'[j] = inventory[j]
                       /\ \A j \in DishesOf(dishes, d) : dishes'[j] = dishes[j]
                  ELSE /\ Cardinality(RecordsOf(inventory', d)) = 1
                       /\ \A j \in RecordsOf(inventory', d) :
                            inventory'[j].stock = stockUpdates[final].stock[1]
                       /\ \A j \in DishesOf(dishes, d) :
                            dishes'[j].stock = stockUpdates[final].stock[1]
    ]_vars

\* a batch of two entries for the same dish has returned: the first was
\* applied, the second threw, and the dish keeps the first entry's stock
C14_Witness ==
  /\ last.op = "batchUpdateStockWith" /\ last.n = 2 /\ last.updated = 1
  /\ last.args.writable = <<TRUE, FALSE>>
  /\ last.args.stockUpdates[1].dishId = Some(1)
  /\ last.args.stockUpdates[2].dishId = Some(1)
  /\ last.args.stockUpdates[1].stock = Some(1)
  /\ last.args.stockUpdates[2].stock = Some(0)
  /\ \E i \in DOMAIN dishes : dishes[i].id = 1 /\ dishes[i].stock = 1
  /\ \E i \in DOMAIN inventory : inventory[i].dishId = 1 /\ inventory[i].stock = 1

\* rate, in hundredths, is 0 for a prior value of 0 and otherwise
\* (current - prior) / prior * 100 to the nearest hundredth
IsGrowthRate(rate, current, prior) ==
  IF prior = 0
  THEN rate = 0
  ELSE 2 * Abs(rate * prior - (current - prior) * 10000) <= prior

\* C15: revenueGrowthRate, orderGrowthRate and the review trend's
\* reviewGrowthRate are exactly 0 when the prior-period value is 0, and
\* otherwise (current - prior) / prior * 100 rounded to 2 decimals.
C15_GrowthRatesGuarded ==
  /\ last.op = "getOrderStatistics" =>
       /\ IsGrowthRate(last.result.revenueGrowthRate,
                       last.args.todayRevenue, last.args.yesterdayRevenue)
       /\ IsGrowthRate(last.result.orderGrowthRate,
                       last.args.todayOrders, last.args.yesterdayOrders)
  /\ (last.op = "getReviewStatistics" /\ Len(last.args.monthlyTrend) >= 2) =>
       LET monthlyTrend == last.args.monthlyTrend
       IN /\ last.result.reviewTrend.reviewGrowthRate # Undefined
          /\ IsGrowthRate(last.result.reviewTrend.reviewGrowthRate[1],
                          monthlyTrend[Len(monthlyTrend)].totalReviews,
                          monthlyTrend[Len(monthlyTrend) - 1].totalReviews)

\* order statistics with no orders yesterday (rate 0) and a revenue that fell
\* from 3 to 2 (rate -33.33)
C15_Witness ==
  /\ last.op = "getOrderStatistics"
  /\ last.args.yesterdayOrders = 0 /\ last.args.todayOrders > 0
  /\ last.result.orderGrowthRate = 0
  /\ last.args.yesterdayRevenue = 3 /\ last.args.todayRevenue = 2
  /\ last.result.revenueGrowthRate = 0 - 3333

\* C16: for a promotion with non-negative totalRevenue and discountGiven,
\* getPromotionAnalytics returns a finite roi: 0 when totalRevenue is not
\* greater than 0, otherwise (totalRevenue - discountGiven) / discountGiven * 100,
\* a discountGiven of 0 included.
C16_RoiAlwaysFinite ==
  last.op = "getPromotionAnalytics" =>
    LET totalRevenue == last.args.totalRevenue
        discountGiven == last.args.discountGiven
        roi == last.result.roi
    IN /\ roi.isFinite
       /\ totalRevenue = 0 => roi.hundredths = 0
       /\ (totalRevenue > 0 /\ discountGiven > 0) =>
            2 * Abs(roi.hundredths * discountGiven
                      - (totalRevenue - discountGiven) * 10000) <= discountGiven

\* one output entry per reference, and the placeholder for a reference that
\* matches no dish
JoinKeepsEveryReference(refs, entries) ==
  /\ Len(entries) = Len(refs)
  /\ \A i \in DOMAIN refs :
       FindById(dishes, refs[i].dishId) = 0 =>
         /\ entries[i].dishName = "Unknown Dish"
         /\ entries[i].dishPrice = 0
         /\ entries[i].categoryId = Null

\* C17: every statistics list that references dishes by id yields one output
\* entry per input reference, and a reference that matches no dish gets the
\* name 'Unknown Dish', price 0 and categoryId null; it is never dropped.
\* Stated for the order topDishes, the review dishReviews and the
\* applicableDishes of single-promotion analytics.
C17_DanglingReferencesKept ==
  /\ last.op = "getOrderStatistics" =>
       JoinKeepsEveryReference(last.args.topDishes, last.result.topDishes)
  /\ last.op = "getReviewStatistics" =>
       JoinKeepsEveryReference(last.args.dishReviews, last.result.dishReviews)
  /\ last.op = "getPromotionAnalytics" =>
       Len(last.result.applicableDishes) = Len(last.args.applicableDishes)

\* C18: exportReport with format csv and a type that is 'inventory' in any
\* letter case writes CSV text with one header row naming the 10 documented
\* columns in order, followed by one row per inventory record, each row of
\* 10 double-quoted fields.
C18_InventoryCsvShape ==
  (/\ last.op = "exportReport"
   /\ ToLowerCase(last.args.type) = Str("inventory")
   /\ ToLowerCase(last.args.format) = Str("csv")) =>
     \E f \in reports :
       /\ f.filename = "inventory" /\ f.extension = "csv"
       /\ LET csv == f.content.csv[1]
          IN /\ Len(csv.header) = 10
             /\ \A k \in DOMAIN csv.header :
                  csv.header[k].value = [path |-> "", key |-> Headers[k]]
             /\ Len(csv.rows) = Len(inventory)
             /\ \A i \in DOMAIN csv.rows :
                  /\ Len(csv.rows[i]) = 10
                  /\ \A k \in DOMAIN csv.rows[i] : csv.rows[i][k].quoted

SupportedTypes == {"sales", "inventory", "reviews", "promotions"}

C20_ExportInRequestedFormat ==
  (/\ last.op = "exportReport" /\ last.ok
   /\ last.args.format \in ValidFormats) =>
     /\ last.result.format = last.args.format.text
     /\ last.result.filePath[1].extension = last.args.format.text
     /\ \E f \in reports :
          /\ f.filename = last.result.filePath[1].filename
          /\ f.extension = last.args.format.text

\* C21: findTopRatedDish returns null for an empty list and otherwise the
\* first entry whose averageRating * ln(totalReviews + 1) no entry exceeds;
\* of A (rating 4.9, 1 review) and B (rating 4.5, 200 reviews) it returns B,
\* whichever comes first.
C21_TopRatedIsFirstArgmax ==
  last.op = "findTopRatedDish" =>
    LET dishReviews == last.args
        isA(r) == r.averageRating = 49 /\ r.totalReviews = 1
        isB(r) == r.averageRating = 45 /\ r.totalReviews = 200
    IN /\ dishReviews = << >> => last.result = Null
       /\ dishReviews # << >> =>
            \E i \in DOMAIN dishReviews :
              /\ last.result = Some(dishReviews[i])
              /\ \A j \in DOMAIN dishReviews :
                   TopRatedScore(dishReviews[j]) <= TopRatedScore(dishReviews[i])
              /\ \A j \in 1..(i - 1) :
                   TopRatedScore(dishReviews[j]) < TopRatedScore(dishReviews[i])
       /\ (Len(dishReviews) = 2
           /\ \/ isA(dishReviews[1]) /\ isB(dishReviews[2])
              \/ isB(dishReviews[1]) /\ isA(dishReviews[2])) =>
            isB(last.result[1])

\* A before B in the list, and B came out
C21_Witness ==
  /\ last.op = "findTopRatedDish"
  /\ Len(last.args) = 2
  /\ last.args[1].averageRating = 49 /\ last.args[1].totalReviews = 1
  /\ last.args[2].averageRating = 45 /\ last.args[2].totalReviews = 200
  /\ last.result = Some(last.args[2])

\* the stock of the record of dish 1
RecordStock == inventory[FindIndexByDishId(inventory, 1)].stock

\* C22: two adjustStock requests on one dish in two processes. When one
\* request reads the stock only after the other has written it, both
\* adjustments are in the final stock; when each request reads the stock before
\* the other's write, the final stock reflects only one of the two adjustments
\* (the other update is lost).
C22_ConcurrentAdjustmentsLoseUpdates ==
  (\A r \in DOMAIN inflight : inflight[r].pc = "done") =>
    \A a, b \in DOMAIN inflight :
      a # b =>
        /\ a \in inflight[b].sawWrites =>
             RecordStock = NewStock(NewStock(inflight[a].currentStock,
                                             inflight[a].adjustment),
                                    inflight[b].adjustment)
        /\ (a \notin inflight[b].sawWrites /\ b \notin inflight[a].sawWrites) =>
             /\ inflight[a].currentStock = inflight[b].currentStock
             /\ RecordStock \in {NewStock(inflight[a].currentStock, inflight[a].adjustment),
                                 NewStock(inflight[b].currentStock, inflight[b].adjustment)}

\* both requests added 1 to a stock of 1 and have returned; the stock is 2
C22_Witness ==
  /\ \A r \in DOMAIN inflight :
       /\ inflight[r].pc = "done"
       /\ inflight[r].adjustment = 1
       /\ inflight[r].currentStock = 1
       /\ inflight[r].sawWrites = {}
  /\ DOMAIN inflight = Requests
  /\ RecordStock = 2

\* the ids of a collection, in file order
Ids(data) == [i \in DOMAIN data |-> data[i].id]

PairwiseDistinct(ids) ==
  \A i, j \in DOMAIN ids : ids[i] = ids[j] => i = j

\* the smallest n >= 1 that is the id of no record of the collection
SmallestUnused(data) ==
  CHOOSE n \in 1..(Len(data) + 1) :
    /\ \A i \in DOMAIN data : data[i].id # n
    /\ \A m \in 1..(n - 1) : \E i \in DOMAIN data : data[i].id = m

\* C23: createCategory and createDish give the new record the smallest
\* number >= 1 that no record of the collection uses, every update (a delete
\* or status change included) leaves the ids of its collection as they were,
\* even when the update body names another id, and so the ids of the
\* categories and the ids of the dishes are pairwise distinct after every step.
C23_IdsDistinct ==
  [][/\ PairwiseDistinct(Ids(categories'))
     /\ PairwiseDistinct(Ids(dishes'))
     /\ (last'.op = "createCategory" =>
           /\ last'.id = SmallestUnused(categories)
           /\ Ids(categories') = Append(Ids(categories), last'.id))
     /\ (last'.op = "createDish" /\ last'.ok =>
           /\ last'.id = SmallestUnused(dishes)
           /\ Ids(dishes') = Append(Ids(dishes), last'.id))
     /\ (last'.op # "createCategory" => Ids(categories') = Ids(categories))
     /\ (last'.op # "createDish" \/ ~last'.ok => Ids(dishes') = Ids(dishes))]_vars

\* category 1 has just been updated (every update body of SpecIds names an
\* id) while category 2 and two dishes exist; the ids are still 1 and 2
C23_Witness ==
  /\ last.op = "updateCategory" /\ last.id = 1 /\ last.ok
  /\ Len(categories) = 2
  /\ Ids(categories) = <<1, 2>>
  /\ ~categories[1].isActive
  /\ Len(dishes) = 2

\* what a created record holds for a field: the supplied value, the default
\* when the body has none
SuppliedOr(supplied, default) ==
  IF supplied = UndefinedValue THEN default ELSE supplied

\* C24: an update-stock request for a dish without an inventory record creates
\* the record with the alertThreshold, supplier and cost of the body (0
\* included) and with the defaults 5, '' and 0 for those the body does not have.
C24_CreatedRecordTakesSuppliedFields ==
  (last.op = "updateStockRequest" /\ last.created = 1) =>
    LET value == last.args[1]
        item == last.result[1]
    IN /\ item.alertThreshold = SuppliedOr(value.alertThreshold, Num(DefaultAlertThreshold))
       /\ item.supplier = SuppliedOr(value.supplier, Text(""))
       /\ item.cost = SuppliedOr(value.cost, Num(0))

\* C25: an adjust-stock request for a dish whose inventory record holds a stock
\* with stock + adjustment < 0 is answered with status 400 and code
\* INVALID_OPERATION, and the inventory records and the dishes are left as
\* they were.
C25_NegativeResultRejected ==
  [][(/\ last'.op = "adjustStockRequest"
      /\ FindIndexByDishId(inventory, last'.id) # 0
      /\ inventory[FindIndexByDishId(inventory, last'.id)].stock + last'.n < 0) =>
        /\ last'.result = <<400>>
        /\ last'.err = "INVALID_OPERATION"
        /\ inventory' = inventory
        /\ dishes' = dishes]_vars

\* an adjustment of -1 on a record with stock 0 has just been rejected
C25_Witness ==
  /\ last.op = "adjustStockRequest"
  /\ last.n = 0 - 1
  /\ last.err = "INVALID_OPERATION"
  /\ FindIndexByDishId(inventory, last.id) # 0
  /\ inventory[FindIndexByDishId(inventory, last.id)].stock = 0
  /\ FindIndexById(dishes, last.id) # 0

\* C26: a createDish whose category exists returns the created dish, which is
\* then the last record of the dish collection, whether or not the inventory
\* entry could be written; when it returns and the dish has no inventory
\* record (the write of the entry failed), the inventory collection is as it
\* was before the call.
C26_InventoryWriteFailureSwallowed ==
  [][last'.op = "createDish" =>
       /\ GetCategoryById(categories, last'.cat) # 0 =>
            /\ last'.ok
            /\ last'.err = ""
            /\ Len(dishes') = Len(dishes) + 1
            /\ dishes'[Len(dishes')].id = last'.id
       /\ (last'.ok /\ FindIndexByDishId(inventory', last'.id) = 0) =>
            inventory' = inventory]_vars

\* createDish has returned a dish that is in the dish collection and has no
\* inventory record
C26_Witness ==
  /\ last.op = "createDish" /\ last.ok
  /\ FindIndexById(dishes, last.id) # 0
  /\ FindIndexByDishId(inventory, last.id) = 0

\* C27: the effectiveness score is never above 100.00 and, when no input is
\* negative, never below 0. It is the two-decimal rounding of
\* min(100, conversionRate * 100 + roiBonus + volumeBonus), where roiBonus is
\* 0 when totalRevenue <= discountGiven and (totalRevenue - discountGiven) /
\* discountGiven * 10 otherwise, and volumeBonus is totalOrders / 10 capped at
\* 20; with discountGiven = 0 and a positive revenue the score is 100.00.
C27_EffectivenessScoreBounded ==
  last.op = "calculateEffectivenessScore" =>
    LET p == last.args
        score == last.result
        volumeTenths == IF p.totalOrders <= 200 THEN p.totalOrders ELSE 200
        \* without the roi bonus, in tenths
        baseTenths == p.conversionRate * 10 + volumeTenths
        \* whether score is the hundredths nearest to num / den, for den > 0
        Rounds(num, den) == 2 * Abs(score * den - 100 * num) <= den
    IN /\ score <= 10000
       /\ (p.totalRevenue >= 0 /\ p.discountGiven >= 0) => score >= 0
       /\ p.totalRevenue <= p.discountGiven =>
            IF baseTenths >= 1000 THEN score = 10000 ELSE score = baseTenths * 10
       /\ (p.totalRevenue > p.discountGiven /\ p.discountGiven = 0) => score = 10000
       /\ (p.totalRevenue > p.discountGiven /\ p.discountGiven > 0) =>
            LET num == baseTenths * p.discountGiven
                         + 100 * (p.totalRevenue - p.discountGiven)
                den == 10 * p.discountGiven
            IN IF num >= 100 * den THEN score = 10000 ELSE Rounds(num, den)

\* discountGiven is 0, the revenue is positive, and the score is 100.00
C27_Witness ==
  /\ last.op = "calculateEffectivenessScore"
  /\ last.args.discountGiven = 0
  /\ last.args.totalRevenue > 0
  /\ last.args.conversionRate = 0
  /\ last.args.totalOrders = 0
  /\ last.result = 10000

\* C28: the expiring-items endpoint answers a days parameter that is an integer
\* below 1 or above 365 with a validation error, uses a days parameter within
\* 1..365 as the number of days, and uses 7 days only when the request has no
\* days parameter.
C28_DaysValidated ==
  last.op = "getExpiringItems" =>
    LET days == last.args
    IN /\ (days # Undefined /\ (days[1] < MinDays \/ days[1] > MaxDays)) =>
            /\ last.result.status = 400
            /\ last.result.code = "VALIDATION_ERROR"
       /\ (days # Undefined /\ days[1] >= MinDays /\ days[1] <= MaxDays) =>
            /\ last.result.status = 200
            /\ last.result.withinDays = days[1]
       /\ days = Undefined =>
            /\ last.result.status = 200
            /\ last.result.withinDays = DefaultDays

\* the extra fields of an inventory record
ExtraFields == {"alertThreshold", "supplier", "cost", "expiryDate"}

\* whether after is before with the stock and the supplied extra fields of
\* update written over it
OnlySuppliedFieldsChanged(before, after, update) ==
  /\ after.dishId = before.dishId
  /\ after.stock = update.stock
  /\ \A f \in ExtraFields : after[f] = SuppliedOr(update[f], before[f])

\* C29: an update-stock request, or a one-entry batch, for a dish that has an
\* inventory record leaves the record's dishId as it was, sets its stock, sets
\* the fields among alertThreshold, supplier, cost and expiryDate that the body
\* or entry has, and keeps the previous value of those it does not have.
C29_UnsuppliedFieldsKept ==
  [][/\ (last'.op = "updateStockRequest" /\ last'.created = 0) =>
          LET inventoryIndex == FindIndexByDishId(inventory, last'.id)
          IN OnlySuppliedFieldsChanged(inventory[inventoryIndex],
                                       inventory'[inventoryIndex], last'.args[1])
     /\ (/\ last'.op = "batchUpdateStockRequest"
         /\ FindIndexByDishId(inventory, last'.args[1].dishId) # 0) =>
          LET inventoryIndex == FindIndexByDishId(inventory, last'.args[1].dishId)
          IN OnlySuppliedFieldsChanged(inventory[inventoryIndex],
                                       inventory'[inventoryIndex], last'.args[1])]_vars

\* C30: in the inventory summary, stockStatus.healthy is not negative and is
\* the number of inventory records whose stock is above their alertThreshold
\* (a record without an alertThreshold is not at or below it).
C30_HealthyCountsRecordsAboveThreshold ==
  last.op = "getInventorySummary" =>
    /\ last.result.stockStatus.healthy >= 0
    /\ last.result.stockStatus.healthy =
         Cardinality({i \in DOMAIN inventory : ~AtOrBelowThreshold(inventory[i])})
====
